---------------------------- MODULE Spec2Model ----------------------------
(***************************************************************************)
(* Model of src/main.py: a Flask forwarding proxy in front of the OpenAI   *)
(* API with an SSE client (SSEClient) that reassembles the upstream body   *)
(* into frames, decodes them into events and relays them to the caller.    *)
(*                                                                         *)
(* Byte strings and text are sequences of one-character strings; the two   *)
(* line terminators are the tokens CR and LF.                              *)
(***************************************************************************)
EXTENDS Naturals, Sequences, FiniteSets

VARIABLES pc, request, stream, sent, resp, arrived, upClosed, content, nRead,
          log, reply, source, data, frames, decoded, relayed, body, fed,
          peers, buffers

\* pc        position of the exchange: before_request, dispatch, proxy, send,
\*           receiving (session.send / resp.content waiting for the upstream
\*           body), events (stream_generate running), done, aborted (the
\*           event generator raised)
\* request   the inbound request (flask.request)
\* stream    the variable `stream` of proxy
\* sent      the outbound requests sent by session.send, in order
\* resp      the status line and headers of the upstream response
\* arrived   the chunks of the upstream body written by upstream so far
\* upClosed  upstream has ended the body
\* content   resp.content once it has been read
\* nRead     the number of upstream chunks the proxy has read
\* log       the records written with logging.info
\* reply     the response handed to the inbound caller
\* source    the chunks SSEClient._event_source has still to deliver (proxy)
\* data      the accumulation buffer `data` of SSEClient._read
\* frames    the frames yielded by _read, in order
\* decoded   the events yielded by events(), in order
\* relayed   the chunks yielded by stream_generate to the caller, in order
\* body      the bytes an arbitrary event source has delivered (SpecSSE)
\* fed       the number of chunks that source has delivered (SpecSSE)
\* peers     the exchanges that stream at the same time, each with its own
\*           upstream, SSEClient and caller (SpecPair)
\* buffers   the accumulation buffers of the _read generators (SpecPair)
vars == <<pc, request, stream, sent, resp, arrived, upClosed, content, nRead,
          log, reply, source, data, frames, decoded, relayed, body, fed,
          peers, buffers>>

proxyVars == <<request, stream, sent, resp, arrived, upClosed, content, nRead,
               log, reply, source>>

sseVars == <<data, frames, decoded, relayed>>

(***************************************************************************)
(* Bytes                                                                   *)
(***************************************************************************)
CR == "CR"
LF == "LF"
None == "None"

\* Marker bytes standing for the framing of a gzip, brotli and zlib stream.
GZ == "GZ"
BR == "BR"
ZL == "ZL"

\* Bytes that are not valid UTF-8 text: line.decode(self._char_enc) raises on them.
NonText == {GZ, BR, ZL}

DATA == <<"d", "a", "t", "a">>
EVENT == <<"e", "v", "e", "n", "t">>
ID == <<"i", "d">>
RETRY == <<"r", "e", "t", "r", "y">>
MESSAGE == <<"m", "e", "s", "s", "a", "g", "e">>

EndsWith(s, suffix) ==
    /\ Len(s) >= Len(suffix)
    /\ SubSeq(s, Len(s) - Len(suffix) + 1, Len(s)) = suffix

\* Index of the first element of s that is in set S, 0 when there is none.
FirstIn(s, S) ==
    IF \E i \in 1..Len(s) : s[i] \in S
    THEN CHOOSE i \in 1..Len(s) : s[i] \in S /\ \A j \in 1..(i - 1) : s[j] \notin S
    ELSE 0

RECURSIVE Concat(_)
Concat(ss) == IF ss = <<>> THEN <<>> ELSE Head(ss) \o Concat(Tail(ss))

\* bytes.splitlines(keepends): the boundaries are \n, \r and \r\n.
RECURSIVE splitlines(_, _)
splitlines(b, keepends) ==
    IF b = <<>> THEN <<>>
    ELSE LET i == FirstIn(b, {CR, LF})
         IN IF i = 0 THEN <<b>>
            ELSE LET last == IF b[i] = CR /\ i < Len(b) /\ b[i + 1] = LF
                             THEN i + 1 ELSE i
                     line == SubSeq(b, 1, IF keepends THEN last ELSE i - 1)
                 IN <<line>> \o splitlines(SubSeq(b, last + 1, Len(b)), keepends)

(***************************************************************************)
(* SSEClient._read: the frame reassembler                                  *)
(***************************************************************************)
Terminators == {<<CR, CR>>, <<LF, LF>>, <<CR, LF, CR, LF>>}

IsDelimited(buf) == \E t \in Terminators : EndsWith(buf, t)

\* The inner loop of _read over the lines of one chunk: st.data is the
\* accumulation buffer, st.frames the frames yielded so far.
RECURSIVE ReadLines(_, _)
ReadLines(lines, st) ==
    IF lines = <<>> THEN st
    ELSE LET buf == st.data \o Head(lines)
         IN IF IsDelimited(buf)
            THEN ReadLines(Tail(lines), [data |-> <<>>, frames |-> Append(st.frames, buf)])
            ELSE ReadLines(Tail(lines), [data |-> buf, frames |-> st.frames])

ReadChunk(buf, chunk) == ReadLines(splitlines(chunk, TRUE), [data |-> buf, frames |-> <<>>])

\* A variant of ReadRest that yields nothing for the residual buffer.
ReadRestDropped(buf) == <<>>

\* After the source is exhausted the residual buffer is yielded as a frame.
ReadRest(buf) == IF buf # <<>> THEN <<buf>> ELSE <<>>

(***************************************************************************)
(* Event and SSEClient.events: the decoder                                 *)
(***************************************************************************)
NewEvent == [id |-> None, event |-> MESSAGE, data |-> <<>>, retry |-> None]

FieldNames == {ID, EVENT, DATA, RETRY}

\* str.strip() of the line is empty.
IsBlank(line) == \A i \in 1..Len(line) : line[i] = " "

FieldOf(line) ==
    LET i == FirstIn(line, {":"})
    IN IF i = 0 THEN line ELSE SubSeq(line, 1, i - 1)

\* A variant of ValueOf that removes every leading space (lstrip).
RECURSIVE lstrip_spaces(_)
lstrip_spaces(v) == IF v # <<>> /\ Head(v) = " " THEN lstrip_spaces(Tail(v)) ELSE v

ValueOfLstrip(line) ==
    LET i == FirstIn(line, {":"})
    IN IF i = 0 THEN <<>> ELSE lstrip_spaces(SubSeq(line, i + 1, Len(line)))

ValueOf(line) ==
    LET i == FirstIn(line, {":"})
        rest == SubSeq(line, i + 1, Len(line))
    IN IF i = 0 THEN <<>>
       ELSE IF rest # <<>> /\ Head(rest) = " " THEN Tail(rest) ELSE rest

\* A variant of ParseLine that takes a field name that starts with `data` for
\* the data field.
ParseLinePrefix(event, line) ==
    IF IsBlank(line) \/ Head(line) = ":" THEN event
    ELSE LET field == FieldOf(line)
             value == ValueOf(line)
         IN IF Len(field) >= Len(DATA) /\ SubSeq(field, 1, Len(DATA)) = DATA
            THEN [event EXCEPT !.data = @ \o value \o <<LF>>]
            ELSE IF field \notin FieldNames THEN event
            ELSE IF field = ID THEN [event EXCEPT !.id = value]
            ELSE IF field = EVENT THEN [event EXCEPT !.event = value]
            ELSE [event EXCEPT !.retry = value]

ParseLine(event, line) ==
    IF IsBlank(line) \/ Head(line) = ":" THEN event
    ELSE LET field == FieldOf(line)
             value == ValueOf(line)
         IN IF field \notin FieldNames THEN event
            ELSE IF field = DATA THEN [event EXCEPT !.data = @ \o value \o <<LF>>]
            ELSE IF field = ID THEN [event EXCEPT !.id = value]
            ELSE IF field = EVENT THEN [event EXCEPT !.event = value]
            ELSE [event EXCEPT !.retry = value]

RECURSIVE ParseLines(_, _)
ParseLines(event, lines) ==
    IF lines = <<>> THEN event
    ELSE ParseLines(ParseLine(event, Head(lines)), Tail(lines))

\* The fields of the event once every line of the frame has been parsed.
ParseFrame(frame) == ParseLines(NewEvent, splitlines(frame, FALSE))

\* line.decode raises UnicodeDecodeError on a line that is not UTF-8.
Raises(frame) == \E i \in 1..Len(frame) : frame[i] \in NonText

\* A variant of IsDispatched that tests the data after the trailing newline
\* has been removed.
IsDispatchedAfterStrip(event) == event.data \notin {<<>>, <<LF>>}

\* "Events with no data are not dispatched."
IsDispatched(event) == event.data # <<>>

\* A variant of Finish that removes every trailing newline (rstrip).
RECURSIVE rstrip_newlines(_)
rstrip_newlines(d) ==
    IF EndsWith(d, <<LF>>) THEN rstrip_newlines(SubSeq(d, 1, Len(d) - 1)) ELSE d

FinishStripAll(event) ==
    [event EXCEPT !.data = rstrip_newlines(@),
                  !.event = IF @ = <<>> THEN MESSAGE ELSE @]

\* The event as it is yielded: one trailing newline removed, the name defaulted.
Finish(event) ==
    [event EXCEPT !.data = IF EndsWith(@, <<LF>>) THEN SubSeq(@, 1, Len(@) - 1) ELSE @,
                  !.event = IF @ = <<>> THEN MESSAGE ELSE @]

\* events() over a sequence of frames that _read would yield: the events
\* yielded, the number of frames pulled from _read, and whether the generator
\* raised (it then pulls and yields nothing more).
RECURSIVE events(_, _, _)
events(fs, acc, n) ==
    IF fs = <<>> THEN [events |-> acc, pulled |-> n, raised |-> FALSE]
    ELSE IF Raises(Head(fs)) THEN [events |-> acc, pulled |-> n + 1, raised |-> TRUE]
    ELSE LET e == ParseFrame(Head(fs))
         IN events(Tail(fs), IF IsDispatched(e) THEN Append(acc, Finish(e)) ELSE acc, n + 1)

\* A variant of Emit that ends the relayed chunk with a single newline.
EmitOneNewline(e) == <<"d", "a", "t", "a", ":", " ">> \o e.data \o <<LF>>

\* stream_generate: what is handed to the inbound caller for one event.
Emit(e) == <<"d", "a", "t", "a", ":", " ">> \o e.data \o <<LF, LF>>

stream_generate(es) == [i \in 1..Len(es) |-> Emit(es[i])]

(***************************************************************************)
(* The pipeline over one chunk and at exhaustion                           *)
(***************************************************************************)
\* _read would yield the frames fs: events() pulls, decodes and dispatches
\* them, and stream_generate hands each event to the inbound caller.
Dispatch(fs, nextPc) ==
    LET r == events(fs, <<>>, 0)
    IN /\ frames' = frames \o SubSeq(fs, 1, r.pulled)
       /\ decoded' = decoded \o r.events
       /\ relayed' = relayed \o stream_generate(r.events)
       /\ pc' = IF r.raised THEN "aborted" ELSE nextPc

\* One iteration of `for chunk in self._event_source`.
Pump(chunk) ==
    LET st == ReadChunk(data, chunk)
    IN /\ data' = st.data
       /\ Dispatch(st.frames, pc)

\* The source is exhausted.
Drain ==
    /\ data' = <<>>
    /\ Dispatch(ReadRest(data), "done")

(***************************************************************************)
(* The inbound request                                                     *)
(***************************************************************************)
\* An allow-list that also names the second caller of this model.
ALLOWED_IPS_open == {"81.22.48.239", "45.43.88.234", "10.0.0.7"}

ALLOWED_IPS == {"81.22.48.239", "45.43.88.234"}

IGNORE_REQUEST_HEADERS == {"Host", "Accept-Encoding"}

Addrs == {"81.22.48.239", "10.0.0.7"}

Methods == {"GET", "POST", "PUT", "DELETE", "PATCH"}

\* The `path` argument of proxy: "" is the root path `/`.
Paths == {"", "v1/chat/completions"}

\* Inbound bodies (request.get_data()).
Bodies == {"not json", "[1]", "{}", "{\"stream\": false}", "{\"stream\": true}",
           "{\"stream\": null}", "{\"stream\": 1}"}

Mimetypes == {"application/json", "text/plain", "multipart/form-data"}

\* Inbound header lines as the caller writes them: header names come in any
\* letter case on the wire.
RequestHeaders ==
    { << <<"host", "proxy.local">>, <<"Authorization", "Bearer k">> >>,
      << <<"ACCEPT-ENCODING", "gzip">>, <<"x-trace", "1">>, <<"Host", "proxy.local">> >> }

Requests == [addr : Addrs, method : Methods, path : Paths, body : Bodies,
             mimetype : Mimetypes, headers : RequestHeaders]

NoRequest == [addr |-> None, method |-> None, path |-> None, body |-> None,
              mimetype |-> None, headers |-> <<>>]

\* @app.route('/', defaults={'path': ''}) names no methods, so the rule takes
\* Flask's default; @app.route('/<path:path>', methods=[...]) names four.
RootMethods == {"GET"}

PathMethods == {"GET", "POST", "PUT", "DELETE"}

Routed(req) ==
    IF req.path = "" THEN req.method \in RootMethods ELSE req.method \in PathMethods

\* A variant of get_stream whose default for an absent `stream` is True.
get_stream_default_true(req) ==
    IF req.mimetype # "application/json" THEN None
    ELSE CASE req.body = "not json" -> None
           [] req.body = "[1]" -> None
           [] req.body = "{}" -> "True"
           [] req.body = "{\"stream\": false}" -> "False"
           [] req.body = "{\"stream\": true}" -> "True"
           [] req.body = "{\"stream\": null}" -> None
           [] req.body = "{\"stream\": 1}" -> "1"

\* request.get_json().get('stream', None) inside try/except: the value of
\* `stream` after lines 221-225. get_json raises unless the mimetype is JSON and
\* the body parses; .get raises on a value that is not an object.
get_stream(req) ==
    IF req.mimetype # "application/json" THEN None
    ELSE CASE req.body = "not json" -> None
           [] req.body = "[1]" -> None
           [] req.body = "{}" -> None
           [] req.body = "{\"stream\": false}" -> "False"
           [] req.body = "{\"stream\": true}" -> "True"
           [] req.body = "{\"stream\": null}" -> None
           [] req.body = "{\"stream\": 1}" -> "1"

\* Python truth value of `stream`.
Truthy(v) == v \in {"True", "1"}

\* The name under which request.headers yields a header: the WSGI environ
\* keeps names as HTTP_ACCEPT_ENCODING, and werkzeug's EnvironHeaders turns
\* them back into Accept-Encoding.
title(name) ==
    CASE name \in {"host", "Host"} -> "Host"
      [] name = "ACCEPT-ENCODING" -> "Accept-Encoding"
      [] name = "x-trace" -> "X-Trace"
      [] OTHER -> name

\* filtered_headers, lines 228-231.
RECURSIVE filtered_headers(_)
filtered_headers(headers) ==
    IF headers = <<>> THEN <<>>
    ELSE LET key == title(Head(headers)[1])
         IN (IF key \notin IGNORE_REQUEST_HEADERS THEN << <<key, Head(headers)[2]>> >> ELSE <<>>)
            \o filtered_headers(Tail(headers))

\* The content types werkzeug parses as a form.
FormMimetypes == {"multipart/form-data"}

\* request.get_data() at line 237. log_orig_request has read request.data
\* before (line 150), which is get_data(parse_form_data=True): for a form
\* content type it parses the form off the input stream and caches what is
\* left, the empty bytes, and every later get_data() returns that cache.
get_data(req) == IF req.mimetype \in FormMimetypes THEN "" ELSE req.body

\* requests.Request(method, url, headers, data).prepare()
prepare(req) ==
    [method |-> req.method, path |-> req.path, headers |-> filtered_headers(req.headers),
     body |-> get_data(req)]

(***************************************************************************)
(* The upstream response                                                   *)
(***************************************************************************)
NoResp == [state |-> "none", status |-> 0, headers |-> <<>>]

UpstreamStatus == {200, 302}

UpstreamHeaders ==
    { <<>>,
      << <<"Content-Length", "9">>, <<"Content-Encoding", "gzip">> >>,
      << <<"connection", "close">>, <<"content-encoding", "deflate">>,
         <<"X-Request-Id", "7">> >>,
      << <<"Location", "/next">>, <<"CONTENT-LENGTH", "0">> >>,
      << <<"Content-Encoding", "br">>, <<"Content-Type", "text/event-stream">> >> }

\* Chunks of an upstream body: the framing byte of a compressed stream, and
\* one event-stream frame.
UpstreamChunks == { <<GZ>>, <<BR>>, <<ZL>>, DATA \o <<":", " ", "x", LF, LF>> }

MaxUpstreamChunks == 2

\* requests' default when allow_redirects is not passed.
allow_redirects_default == TRUE

\* session.send(..., allow_redirects = False)
allow_redirects == FALSE

IsRedirect(r) == r.status = 302 /\ \E i \in 1..Len(r.headers) : r.headers[i][1] = "Location"

\* The outbound requests one session.send() makes when upstream answers the
\* prepared request with r.
Outbound(prepared, r) ==
    IF allow_redirects /\ r.state = "ok" /\ IsRedirect(r)
    THEN <<prepared, [prepared EXCEPT !.path = "next"]>>
    ELSE <<prepared>>

\* str.lower() on the header names of this model.
lower(name) ==
    CASE name = "Content-Length" -> "content-length"
      [] name = "CONTENT-LENGTH" -> "content-length"
      [] name = "Content-Encoding" -> "content-encoding"
      [] name = "Content-Type" -> "content-type"
      [] name = "Location" -> "location"
      [] name = "X-Request-Id" -> "x-request-id"
      [] OTHER -> name

\* headers_dict.get(name): the later of two equal names wins.
RECURSIVE headers_get(_, _)
headers_get(headers, name) ==
    IF headers = <<>> THEN None
    ELSE LET h == headers[Len(headers)]
         IN IF lower(h[1]) = name THEN h[2]
            ELSE headers_get(SubSeq(headers, 1, Len(headers) - 1), name)

\* brotlicffi.decompress, gzip.decompress, zlib.decompress: a well-formed
\* stream starts with the framing byte of its codec; gzip accepts no input.
Framing(encoding) ==
    CASE encoding = "gzip" -> GZ
      [] encoding = "br" -> BR
      [] encoding = "deflate" -> ZL

decompress(encoding, b) ==
    IF b # <<>> /\ Head(b) = Framing(encoding) THEN [raised |-> FALSE, out |-> Tail(b)]
    ELSE IF b = <<>> /\ encoding = "gzip" THEN [raised |-> FALSE, out |-> <<>>]
    ELSE [raised |-> TRUE, out |-> <<>>]

\* bytes.decode('utf-8', errors='ignore')
RECURSIVE decode_ignore(_)
decode_ignore(b) ==
    IF b = <<>> THEN <<>>
    ELSE (IF Head(b) \in NonText THEN <<>> ELSE <<Head(b)>>) \o decode_ignore(Tail(b))

\* log_response(response): what it appends to the log, and whether it raised.
log_response(r, b) ==
    LET head == [kind |-> "RESPONSE", status |-> r.status, text |-> <<>>]
        content_encoding == headers_get(r.headers, "content-encoding")
        d == IF content_encoding \in {"br", "gzip", "deflate"}
             THEN decompress(content_encoding, b)
             ELSE [raised |-> FALSE, out |-> b]
    IN IF d.raised THEN [raised |-> TRUE, entries |-> <<head>>]
       ELSE [raised |-> FALSE,
             entries |-> <<head, [kind |-> "Body", status |-> r.status,
                                  text |-> decode_ignore(d.out)]>>]

excluded_headers == {"content-length", "connection"}

\* The headers of the buffered reply (lines 250-253).
RECURSIVE relay_headers(_)
relay_headers(headers) ==
    IF headers = <<>> THEN <<>>
    ELSE (IF lower(Head(headers)[1]) \notin excluded_headers THEN <<Head(headers)>> ELSE <<>>)
         \o relay_headers(Tail(headers))

\* requests.Response.__iter__ is iter_content(128); once the content has been
\* read it yields slices of it.
ITER_CHUNK_SIZE == 128

RECURSIVE iter_slices(_, _)
iter_slices(b, n) ==
    IF b = <<>> THEN <<>>
    ELSE IF Len(b) <= n THEN <<b>>
    ELSE <<SubSeq(b, 1, n)>> \o iter_slices(SubSeq(b, n + 1, Len(b)), n)

(***************************************************************************)
(* The reply to the inbound caller                                         *)
(***************************************************************************)
Idle == [via |-> "none", status |-> 0, headers |-> <<>>, body |-> <<>>]

\* An unhandled exception inside the application: Flask answers 500.
InternalError(where) == [via |-> where, status |-> 500, headers |-> <<>>, body |-> <<>>]

MethodNotAllowed == [via |-> "routing", status |-> 405, headers |-> <<>>, body |-> <<>>]

EventStream ==
    [via |-> "stream", status |-> 200,
     headers |-> << <<"Content-Type", "text/event-stream; charset=utf-8">> >>,
     body |-> <<>>]

(***************************************************************************)
(* Exchanges that stream at the same time                                  *)
(***************************************************************************)
Exchanges == {1, 2}

\* One streaming exchange: got are the chunks its upstream has written, nread
\* how many of them its SSEClient has read, closed whether upstream has ended
\* the body, queue the frames _read yields for the chunk in hand, building
\* the event events() is assembling, relayed what its caller has been sent.
NewPeer == [pc |-> "reading", got |-> <<>>, nread |-> 0, closed |-> FALSE,
            queue |-> <<>>, building |-> <<>>, relayed |-> <<>>]

NoPeers == [i \in Exchanges |-> NewPeer]

NoBuffers == [i \in Exchanges |-> <<>>]

\* A buffer that every exchange uses.
BufferShared(i) == 1

\* The buffer an exchange accumulates in: `data` is a local of the _read
\* generator of the SSEClient made for this request at line 258.
BufferOf(i) == i

(***************************************************************************)
(* Spec: one exchange through the proxy                                    *)
(***************************************************************************)
Init ==
    /\ pc = "before_request"
    /\ request \in Requests
    /\ stream = None
    /\ sent = <<>>
    /\ resp = NoResp
    /\ arrived = <<>>
    /\ upClosed = FALSE
    /\ content = <<>>
    /\ nRead = 0
    /\ log = <<>>
    /\ reply = Idle
    /\ source = <<>>
    /\ data = <<>>
    /\ frames = <<>>
    /\ decoded = <<>>
    /\ relayed = <<>>
    /\ body = <<>>
    /\ fed = 0
    /\ peers = NoPeers
    /\ buffers = NoBuffers

sourceVars == <<body, fed>>

pairVars == <<peers, buffers>>

\* @app.before_request limit_remote_addr: `abort` is not imported, so the call
\* raises NameError and Flask answers 500.
limit_remote_addr ==
    /\ pc = "before_request"
    /\ IF request.addr \notin ALLOWED_IPS
       THEN /\ pc' = "done"
            /\ reply' = InternalError("before_request")
       ELSE /\ pc' = "dispatch"
            /\ UNCHANGED reply
    /\ UNCHANGED <<request, stream, sent, resp, arrived, upClosed, content, nRead,
                   log, source>>
    /\ UNCHANGED sseVars
    /\ UNCHANGED sourceVars
    /\ UNCHANGED pairVars

\* Flask dispatches the request to the view of the matching rule.
dispatch_request ==
    /\ pc = "dispatch"
    /\ IF Routed(request)
       THEN /\ pc' = "proxy"
            /\ UNCHANGED reply
       ELSE /\ pc' = "done"
            /\ reply' = MethodNotAllowed
    /\ UNCHANGED <<request, stream, sent, resp, arrived, upClosed, content, nRead,
                   log, source>>
    /\ UNCHANGED sseVars
    /\ UNCHANGED sourceVars
    /\ UNCHANGED pairVars

\* proxy, lines 218-241: log the request, decide the mode, prepare the
\* outbound request and log it.
proxy_prepare ==
    /\ pc = "proxy"
    /\ stream' = get_stream(request)
    /\ log' = log \o << [kind |-> "REQUEST", status |-> 0, text |-> <<>>],
                        [kind |-> "OUR REQUEST", status |-> 0, text |-> <<>>] >>
    /\ pc' = "send"
    /\ UNCHANGED <<request, sent, resp, arrived, upClosed, content, nRead, reply, source>>
    /\ UNCHANGED sseVars
    /\ UNCHANGED sourceVars
    /\ UNCHANGED pairVars

\* session.send: the request goes out; the connection fails, or upstream
\* answers with a status line and headers.
session_send ==
    /\ pc = "send"
    /\ \E r \in [state : {"ok", "failed"}, status : UpstreamStatus, headers : UpstreamHeaders] :
          /\ r.state = "failed" => r.status = 200 /\ r.headers = <<>>
          /\ resp' = r
          /\ sent' = sent \o Outbound(prepare(request), r)
          /\ IF r.state = "failed"
             THEN /\ pc' = "done"
                  /\ reply' = InternalError("send")
             ELSE /\ pc' = "receiving"
                  /\ UNCHANGED reply
    /\ UNCHANGED <<request, stream, arrived, upClosed, content, nRead, log, source>>
    /\ UNCHANGED sseVars
    /\ UNCHANGED sourceVars
    /\ UNCHANGED pairVars

\* Upstream writes one more chunk of the response body.
upstream_chunk ==
    /\ pc = "receiving"
    /\ resp.state = "ok"
    /\ ~upClosed
    /\ Len(arrived) < MaxUpstreamChunks
    /\ \E chunk \in UpstreamChunks : arrived' = Append(arrived, chunk)
    /\ UNCHANGED <<pc, request, stream, sent, resp, upClosed, content, nRead, log,
                   reply, source>>
    /\ UNCHANGED sseVars
    /\ UNCHANGED sourceVars
    /\ UNCHANGED pairVars

\* Upstream ends the response body.
upstream_close ==
    /\ pc = "receiving"
    /\ resp.state = "ok"
    /\ ~upClosed
    /\ upClosed' = TRUE
    /\ UNCHANGED <<pc, request, stream, sent, resp, arrived, content, nRead, log,
                   reply, source>>
    /\ UNCHANGED sseVars
    /\ UNCHANGED sourceVars
    /\ UNCHANGED pairVars

\* The connection breaks while the body is being read: resp.content raises.
upstream_reset ==
    /\ pc = "receiving"
    /\ resp.state = "ok"
    /\ ~upClosed
    /\ pc' = "done"
    /\ resp' = [resp EXCEPT !.state = "reset"]
    /\ reply' = InternalError("send")
    /\ UNCHANGED <<request, stream, sent, arrived, upClosed, content, nRead, log, source>>
    /\ UNCHANGED sseVars
    /\ UNCHANGED sourceVars
    /\ UNCHANGED pairVars

\* Upstream goes silent while the body is being read: the connection stays
\* open and nothing more arrives on it. session.send is called without a
\* timeout, so the read of the body (in session.send when stream is falsy, in
\* resp.content otherwise) waits on the socket without limit.
upstream_stall ==
    /\ pc = "receiving"
    /\ resp.state = "ok"
    /\ ~upClosed
    /\ resp' = [resp EXCEPT !.state = "stalled"]
    /\ UNCHANGED <<pc, request, stream, sent, arrived, upClosed, content, nRead, log,
                   reply, source>>
    /\ UNCHANGED sseVars
    /\ UNCHANGED sourceVars
    /\ UNCHANGED pairVars

\* proxy, lines 246-261: resp.content is read to the end of the body (in
\* session.send when stream is falsy, in log_response otherwise), the response
\* is logged, and the reply is the buffered response or the event stream.
proxy_respond ==
    /\ pc = "receiving"
    /\ upClosed
    /\ LET b == Concat(arrived)
           l == log_response(resp, b)
       IN /\ content' = b
          /\ nRead' = Len(arrived)
          /\ log' = log \o l.entries
          /\ IF l.raised
             THEN /\ pc' = "done"
                  /\ reply' = InternalError("log_response")
                  /\ UNCHANGED source
             ELSE IF ~Truthy(stream)
             THEN /\ pc' = "done"
                  /\ reply' = [via |-> "buffered", status |-> resp.status,
                               headers |-> relay_headers(resp.headers), body |-> b]
                  /\ UNCHANGED source
             ELSE /\ pc' = "events"
                  /\ reply' = EventStream
                  /\ source' = iter_slices(b, ITER_CHUNK_SIZE)
    /\ UNCHANGED <<request, stream, sent, resp, arrived, upClosed>>
    /\ UNCHANGED sseVars
    /\ UNCHANGED sourceVars
    /\ UNCHANGED pairVars

\* stream_generate pulls the next chunk of resp through SSEClient.
stream_chunk ==
    /\ pc = "events"
    /\ reply.via = "stream"
    /\ source # <<>>
    /\ source' = Tail(source)
    /\ Pump(Head(source))
    /\ UNCHANGED <<request, stream, sent, resp, arrived, upClosed, content, nRead,
                   log, reply>>
    /\ UNCHANGED sourceVars
    /\ UNCHANGED pairVars

\* resp is exhausted: the residual buffer is decoded and the stream ends.
stream_end ==
    /\ pc = "events"
    /\ reply.via = "stream"
    /\ source = <<>>
    /\ Drain
    /\ UNCHANGED proxyVars
    /\ UNCHANGED sourceVars
    /\ UNCHANGED pairVars

Next ==
    \/ limit_remote_addr
    \/ dispatch_request
    \/ proxy_prepare
    \/ session_send
    \/ upstream_chunk
    \/ upstream_close
    \/ upstream_reset
    \/ upstream_stall
    \/ proxy_respond
    \/ stream_chunk
    \/ stream_end

Spec == Init /\ [][Next]_vars

\* The exchange under its scheduling: the worker that serves the request runs
\* the handler to its end, and an upstream that has not stalled goes on with
\* its response, so the exchange does not stop while a step is possible.
\* The steps of stream_chunk and of stream_end, told by what they do to the
\* source and to the position of the generator.
TakesChunk ==
    /\ pc = "events" /\ reply.via = "stream" /\ source # <<>>
    /\ source' = Tail(source)

EndsStream ==
    /\ pc = "events" /\ reply.via = "stream" /\ source = <<>>
    /\ pc' \in {"done", "aborted"}

Fairness ==
    /\ WF_vars(limit_remote_addr)
    /\ WF_vars(dispatch_request)
    /\ WF_vars(proxy_prepare)
    /\ WF_vars(session_send)
    /\ WF_vars(upstream_close)
    /\ WF_vars(proxy_respond)
    /\ WF_source(TakesChunk)
    /\ WF_pc(EndsStream)

SpecLive == Init /\ [][Next]_vars /\ Fairness

(***************************************************************************)
(* SpecSSE: an SSEClient over an arbitrary event source, read by           *)
(* stream_generate                                                         *)
(***************************************************************************)
MaxChunks == 5

Pieces == {DATA, EVENT, <<":">>, <<" ">>, <<"x">>, <<CR>>, <<LF>>}

Chunks == Pieces \cup {<<>>, <<CR, LF>>, <<LF, LF>>}

InitSSE ==
    /\ pc = "events"
    /\ request = NoRequest
    /\ stream = "True"
    /\ sent = <<>>
    /\ resp = NoResp
    /\ arrived = <<>>
    /\ upClosed = FALSE
    /\ content = <<>>
    /\ nRead = 0
    /\ log = <<>>
    /\ reply = Idle
    /\ source = <<>>
    /\ data = <<>>
    /\ frames = <<>>
    /\ decoded = <<>>
    /\ relayed = <<>>
    /\ body = <<>>
    /\ fed = 0
    /\ peers = NoPeers
    /\ buffers = NoBuffers

\* The event source delivers one more chunk.
source_chunk ==
    /\ pc = "events"
    /\ reply.via = "none"
    /\ fed < MaxChunks
    /\ \E chunk \in Chunks :
          /\ fed' = fed + 1
          /\ body' = body \o chunk
          /\ Pump(chunk)
    /\ UNCHANGED proxyVars
    /\ UNCHANGED pairVars

\* The event source is exhausted.
source_end ==
    /\ pc = "events"
    /\ reply.via = "none"
    /\ Drain
    /\ UNCHANGED proxyVars
    /\ UNCHANGED sourceVars
    /\ UNCHANGED pairVars

NextSSE == source_chunk \/ source_end

SpecSSE == InitSSE /\ [][NextSSE]_vars

(***************************************************************************)
(* SpecPair: two streaming exchanges served at the same time               *)
(***************************************************************************)
MaxPeerChunks == 2

PeerChunks == { DATA \o <<":", "x">>, <<LF, LF>>, DATA \o <<":", "y", LF>> }

InitPair ==
    /\ pc = "events"
    /\ request = NoRequest
    /\ stream = "True"
    /\ sent = <<>>
    /\ resp = NoResp
    /\ arrived = <<>>
    /\ upClosed = FALSE
    /\ content = <<>>
    /\ nRead = 0
    /\ log = <<>>
    /\ reply = EventStream
    /\ source = <<>>
    /\ data = <<>>
    /\ frames = <<>>
    /\ decoded = <<>>
    /\ relayed = <<>>
    /\ body = <<>>
    /\ fed = 0
    /\ peers = NoPeers
    /\ buffers = NoBuffers

\* The upstream of exchange i writes one more chunk.
peer_chunk(i) ==
    /\ ~peers[i].closed
    /\ Len(peers[i].got) < MaxPeerChunks
    /\ \E chunk \in PeerChunks : peers' = [peers EXCEPT ![i].got = Append(@, chunk)]
    /\ UNCHANGED buffers

\* The upstream of exchange i ends its body.
peer_close(i) ==
    /\ ~peers[i].closed
    /\ peers' = [peers EXCEPT ![i].closed = TRUE]
    /\ UNCHANGED buffers

\* _read of exchange i takes the next chunk of its source (lines 45-50).
peer_read(i) ==
    /\ peers[i].pc = "reading"
    /\ peers[i].queue = <<>> /\ peers[i].building = <<>>
    /\ peers[i].nread < Len(peers[i].got)
    /\ LET st == ReadChunk(buffers[BufferOf(i)], peers[i].got[peers[i].nread + 1])
       IN /\ buffers' = [buffers EXCEPT ![BufferOf(i)] = st.data]
          /\ peers' = [peers EXCEPT ![i].nread = @ + 1, ![i].queue = st.frames]

\* The source of exchange i is exhausted: _read yields what is left in the
\* buffer (lines 51-52).
peer_flush(i) ==
    /\ peers[i].pc = "reading"
    /\ peers[i].queue = <<>> /\ peers[i].building = <<>>
    /\ peers[i].nread = Len(peers[i].got)
    /\ peers[i].closed
    /\ buffers' = [buffers EXCEPT ![BufferOf(i)] = <<>>]
    /\ peers' = [peers EXCEPT ![i].pc = "flushed",
                              ![i].queue = ReadRest(buffers[BufferOf(i)])]

\* events() of exchange i pulls a frame and parses its lines into an Event
\* (lines 61-96).
peer_decode(i) ==
    /\ peers[i].pc \in {"reading", "flushed"}
    /\ peers[i].queue # <<>> /\ peers[i].building = <<>>
    /\ LET frame == Head(peers[i].queue)
       IN IF Raises(frame)
          THEN peers' = [peers EXCEPT ![i].pc = "aborted", ![i].queue = <<>>]
          ELSE peers' = [peers EXCEPT ![i].queue = Tail(@),
                                      ![i].building = <<ParseFrame(frame)>>]
    /\ UNCHANGED buffers

\* events() of exchange i dispatches the event (lines 98-109) and
\* stream_generate hands it to the caller of that exchange.
peer_relay(i) ==
    /\ peers[i].building # <<>>
    /\ LET e == peers[i].building[1]
       IN peers' = [peers EXCEPT ![i].building = <<>>,
                                 ![i].relayed = IF IsDispatched(e)
                                                THEN Append(@, Emit(Finish(e)))
                                                ELSE @]
    /\ UNCHANGED buffers

NextPair ==
    /\ \E i \in Exchanges :
          \/ peer_chunk(i)
          \/ peer_close(i)
          \/ peer_read(i)
          \/ peer_flush(i)
          \/ peer_decode(i)
          \/ peer_relay(i)
    /\ UNCHANGED <<pc, data, frames, decoded, relayed, body, fed>>
    /\ UNCHANGED proxyVars

SpecPair == InitPair /\ [][NextPair]_vars

(***************************************************************************)
(* Properties                                                              *)
(***************************************************************************)
\* The frames and events of a body delivered as one single chunk.
WholeFrames(b) ==
    LET st == ReadChunk(<<>>, b) IN st.frames \o ReadRest(st.data)

WholeEvents(b) == events(WholeFrames(b), <<>>, 0).events

\* C1: once the source is exhausted, the events yielded for the chunks that
\* were delivered are the events yielded for the same bytes delivered as one
\* chunk, whatever the partition into chunks was.
C1_ChunkingIndependent ==
    (pc = "done" /\ reply.via = "none") => decoded = WholeEvents(body)

\* The frames completed by the chunks cs, the residual buffer left out.
CompletedFrames(cs) == ReadChunk(<<>>, Concat(cs)).frames

\* C2: on the streaming path, when the proxy has read n chunks of the upstream
\* body, every event of a frame completed by the first n - 1 chunks has
\* already been handed to the inbound caller.
C2_RelayBeforeNextRead ==
    (Truthy(stream) /\ nRead > 0 /\ resp.state = "ok") =>
        Len(relayed) >= Len(events(CompletedFrames(SubSeq(arrived, 1, nRead - 1)), <<>>, 0).events)

\* A line of the frame is a data line: `data` alone or `data:` and a value.
IsDataLine(line) ==
    \/ line = DATA
    \/ Len(line) > Len(DATA) /\ SubSeq(line, 1, Len(DATA) + 1) = DATA \o <<":">>

HasDataLine(frame) == SelectSeq(splitlines(frame, FALSE), IsDataLine) # <<>>

\* Every data line of the frame carries the empty value.
AllDataEmpty(frame) ==
    LET ls == SelectSeq(splitlines(frame, FALSE), IsDataLine)
    IN \A i \in 1..Len(ls) : ls[i] \in {DATA, DATA \o <<":">>, DATA \o <<":", " ">>}

\* C3 as stated: every event yielded has non-empty data.
C3_NoEmptyData == \A i \in 1..Len(decoded) : decoded[i].data # <<>>

\* C3 as amended: a frame with no data line yields no event and nothing is
\* relayed for it; every frame with a data line yields exactly one event, also
\* when all its data lines are empty, and that event's data is then empty or
\* consists of newlines only.
C3_DataLineDispatch ==
    pc # "aborted" =>
        LET dataFrames == SelectSeq(frames, HasDataLine)
        IN /\ Len(decoded) = Len(dataFrames)
           /\ Len(relayed) = Len(dataFrames)
           /\ \A k \in 1..Len(dataFrames) :
                 AllDataEmpty(dataFrames[k]) =>
                     \A i \in 1..Len(decoded[k].data) : decoded[k].data[i] = LF

C3_Witness ==
    /\ \E j \in 1..Len(frames) : ~HasDataLine(frames[j])
    /\ \E k \in 1..Len(decoded) : decoded[k].data = <<>>
    /\ Len(relayed) = 1

\* The upstream response headers without content-length and connection.
PassedHeaders(headers) ==
    SelectSeq(headers, LAMBDA h : h[1] \notin {"Content-Length", "CONTENT-LENGTH", "connection"})

\* C4: on the buffered path, once upstream has answered in full, the caller
\* receives the upstream status, the upstream body bytes and the upstream
\* headers minus content-length and connection.
C4_BufferedPassThrough ==
    (pc = "done" /\ resp.state = "ok" /\ upClosed /\ ~Truthy(stream)) =>
        /\ reply.status = resp.status
        /\ reply.body = Concat(arrived)
        /\ reply.headers = PassedHeaders(resp.headers)

\* The body is corrupt for the Content-Encoding the response declares.
DeclaredEncoding == headers_get(resp.headers, "content-encoding")

CorruptForEncoding ==
    /\ DeclaredEncoding \in {"br", "gzip", "deflate"}
    /\ decompress(DeclaredEncoding, Concat(arrived)).raised

\* C5: when decompressing the body for the log fails, the exchange still
\* completes with a relayed response, and a buffered reply carries the
\* upstream status and the original body.
C5_LogFailureHarmless ==
    (pc = "done" /\ resp.state = "ok" /\ upClosed /\ CorruptForEncoding) =>
        /\ reply.via \in {"buffered", "stream"}
        /\ reply.via = "buffered" => reply.status = resp.status /\ reply.body = Concat(arrived)

\* Inbound bodies that do not ask for streaming: not JSON, JSON but no object,
\* an object without `stream`, `stream` false.
NotStreamingBodies == {"not json", "[1]", "{}", "{\"stream\": false}"}

\* C6: for such a body the handler gets past the mode decision, the outbound
\* request is sent once the handler reaches the send, and the exchange never
\* takes the streaming path.
C6_DecisionNeverFails ==
    (request.body \in NotStreamingBodies /\ pc \in {"send", "receiving", "events", "done", "aborted"}
        /\ reply.via \notin {"before_request", "routing"}) =>
        /\ ~Truthy(stream)
        /\ pc # "send" => Len(sent) = 1
        /\ pc \notin {"events", "aborted"}
        /\ reply.via # "stream"
        /\ relayed = <<>>

C6_Witness ==
    /\ pc = "done"
    /\ request.body = "not json"
    /\ request.mimetype = "application/json"
    /\ reply.via = "buffered"
    /\ Len(sent) = 1

\* C7: the chunks handed to the inbound caller are, one per event and in
\* order, `data: <data>\n\n` for the events decoded from the frames of the
\* upstream body.
C7_RelayInOrder ==
    /\ decoded = events(frames, <<>>, 0).events
    /\ Len(relayed) = Len(decoded)
    /\ \A i \in 1..Len(relayed) :
          relayed[i] = <<"d", "a", "t", "a", ":", " ">> \o decoded[i].data \o <<LF, LF>>

C7_Witness ==
    /\ pc = "done"
    /\ Len(relayed) = 2
    /\ relayed[1] # relayed[2]

\* C8: a GET, POST, PUT or DELETE request is never rejected by routing.
C8_AllPathsRouted ==
    request.method \in {"GET", "POST", "PUT", "DELETE"} => reply.via # "routing"

\* C9: at most one outbound request is sent per exchange; a failed send or a
\* broken connection ends the exchange as a failure with that one request sent.
C9_SingleSend ==
    /\ Len(sent) <= 1
    /\ resp.state \in {"failed", "reset"} =>
          pc = "done" /\ reply.status = 500 /\ Len(sent) = 1

C9_Witness ==
    /\ pc = "done"
    /\ resp.state = "ok"
    /\ IsRedirect(resp)
    /\ reply.via = "buffered"
    /\ Len(sent) = 1

\* C10: when upstream answers with a redirect, the reply to the caller, on
\* either path, carries the redirect status and the Location header.
C10_RedirectSurfaced ==
    (resp.state = "ok" /\ IsRedirect(resp) /\ reply.via \in {"buffered", "stream"}) =>
        /\ reply.status = resp.status
        /\ \E i \in 1..Len(reply.headers) : reply.headers[i][1] = "Location"

\* The data lines of a frame, and the frames that have one.
DataLines(frame) == SelectSeq(splitlines(frame, FALSE), IsDataLine)

DataFrames == SelectSeq(frames, HasDataLine)

IsEmptyDataLine(line) == line \in {DATA, DATA \o <<":">>, DATA \o <<":", " ">>}

\* C11 as stated: the data of a yielded event never ends with a line
\* terminator.
C11_NoTrailingTerminator ==
    \A i \in 1..Len(decoded) :
        decoded[i].data # <<>> => decoded[i].data[Len(decoded[i].data)] \notin {CR, LF}

\* C11 as amended: exactly one trailing newline is removed, so the data of a
\* yielded event never ends with CR, and it ends with LF exactly when the frame
\* has two or more data lines and the last of them has an empty value.
C11_TrailingOnlyFromEmptyLast ==
    pc # "aborted" =>
        LET dfs == DataFrames
        IN /\ Len(decoded) = Len(dfs)
           /\ \A k \in 1..Len(dfs) :
                 LET d == decoded[k].data
                     ls == DataLines(dfs[k])
                 IN /\ d # <<>> => d[Len(d)] # CR
                    /\ (d # <<>> /\ d[Len(d)] = LF) <=>
                           (Len(ls) >= 2 /\ IsEmptyDataLine(ls[Len(ls)]))

C11_Witness ==
    /\ pc = "done"
    /\ \E k \in 1..Len(decoded) :
          /\ EndsWith(decoded[k].data, <<"x", LF>>)
          /\ Len(DataLines(DataFrames[k])) = 2

\* C12: the chunk relayed for an event named "message", decoded again by an
\* SSEClient, gives exactly one event with the same data and the name "message".
C12_RoundTrip ==
    \A i \in 1..Len(decoded) :
        decoded[i].event = MESSAGE =>
            /\ Len(WholeEvents(relayed[i])) = 1
            /\ WholeEvents(relayed[i])[1].data = decoded[i].data
            /\ WholeEvents(relayed[i])[1].event = MESSAGE

\* The value a data line carries: the text after `data:`, less one leading space.
DataValue(line) ==
    LET rest == SubSeq(line, Len(DATA) + 2, Len(line))
    IN IF rest # <<>> /\ rest[1] = " " THEN SubSeq(rest, 2, Len(rest)) ELSE rest

\* v1, ..., vn joined by a single newline.
RECURSIVE JoinValues(_)
JoinValues(ls) ==
    IF Len(ls) = 1 THEN DataValue(ls[1])
    ELSE DataValue(ls[1]) \o <<LF>> \o JoinValues(Tail(ls))

IsCommentOrBlank(line) == line = <<>> \/ IsBlank(line) \/ line[1] = ":"

IsKept(line) == ~IsCommentOrBlank(line)

\* C17: the data of the event of a frame is the values of its data lines, in
\* order, joined by single newlines, and the event is the one decoded from the
\* frame without its comment and blank lines.
C17_DataJoined ==
    pc # "aborted" =>
        LET dfs == DataFrames
        IN /\ Len(decoded) = Len(dfs)
           /\ \A k \in 1..Len(dfs) :
                 LET ls == splitlines(dfs[k], FALSE)
                 IN /\ decoded[k].data = JoinValues(SelectSeq(ls, IsDataLine))
                    /\ decoded[k] = Finish(ParseLines(NewEvent, SelectSeq(ls, IsKept)))

C17_Witness ==
    /\ pc = "done"
    /\ \E k \in 1..Len(DataFrames) :
          /\ Len(DataLines(DataFrames[k])) = 2
          /\ \E i \in 1..Len(splitlines(DataFrames[k], FALSE)) :
                IsCommentOrBlank(splitlines(DataFrames[k], FALSE)[i])
          /\ decoded[k].data = <<LF>>

\* C18: once the source is exhausted, the frames yielded, concatenated in
\* order, are the bytes received; no frame is empty; the buffer is empty; and
\* a step that delivers an empty chunk yields no frame.
C18_Conserved ==
    /\ [](\A i \in 1..Len(frames) : frames[i] # <<>>)
    /\ []((pc = "done" /\ reply.via = "none") => Concat(frames) = body /\ data = <<>>)
    /\ []((pc = "events" /\ reply.via = "none") => Concat(frames) \o data = body)
    /\ [][(fed' = fed + 1 /\ body' = body) => (frames' = frames /\ data' = data)]_vars

C18_Witness ==
    /\ pc = "done"
    /\ reply.via = "none"
    /\ Len(frames) = 2
    /\ ~IsDelimited(frames[2])
    /\ Len(body) < fed

\* The field name of the line is none of id, event, data, retry.
HasUnknownField(line) ==
    /\ ~IsCommentOrBlank(line)
    /\ (IF \E i \in 1..Len(line) : line[i] = ":"
        THEN SubSeq(line, 1, (CHOOSE i \in 1..Len(line) :
                                 line[i] = ":" /\ \A j \in 1..(i - 1) : line[j] # ":") - 1)
        ELSE line) \notin {ID, EVENT, DATA, RETRY}

HasKnownField(line) == ~HasUnknownField(line)

\* The event a frame gives, or none.
EventOfLines(ls) ==
    LET e == ParseLines(NewEvent, ls)
    IN IF IsDispatched(e) THEN <<Finish(e)>> ELSE <<>>

RECURSIVE EventsWithoutUnknown(_)
EventsWithoutUnknown(fs) ==
    IF fs = <<>> THEN <<>>
    ELSE EventOfLines(SelectSeq(splitlines(Head(fs), FALSE), HasKnownField))
         \o EventsWithoutUnknown(Tail(fs))

C13_AlwaysAnswers ==
    /\ <>(pc \in {"done", "aborted"})
    /\ [](resp.state \in {"failed", "reset", "stalled"} => <>(pc = "done" /\ reply.status = 500))

\* C15: for a caller outside the allow-list nothing is sent upstream and no
\* step of the proxy handler runs; the exchange ends in the before_request hook.
C15_RejectedBeforeForwarding ==
    request.addr \notin {"81.22.48.239", "45.43.88.234"} =>
        /\ sent = <<>>
        /\ pc \in {"before_request", "done"}
        /\ stream = None /\ log = <<>> /\ resp = NoResp /\ arrived = <<>>
        /\ pc = "done" => reply.via = "before_request"
        /\ pc = "before_request" => reply = Idle

C15_Witness ==
    /\ pc = "done"
    /\ request.addr = "10.0.0.7"
    /\ reply.via = "before_request"
    /\ sent = <<>>

\* Inbound header names compared without regard to letter case.
IsDenied(h) == h[1] \in {"host", "Host", "HOST", "accept-encoding", "Accept-Encoding",
                         "ACCEPT-ENCODING"}

upper(name) ==
    CASE name \in {"x-trace", "X-Trace"} -> "X-TRACE"
      [] name = "Authorization" -> "AUTHORIZATION"
      [] OTHER -> name

SameHeaders(out, inb) ==
    /\ Len(out) = Len(inb)
    /\ \A i \in 1..Len(out) : upper(out[i][1]) = upper(inb[i][1]) /\ out[i][2] = inb[i][2]

\* C16: every outbound request has the inbound method, the inbound body
\* unchanged, and the inbound headers minus Host and Accept-Encoding (in any
\* letter case), each with its value.
C16_OutboundFaithful ==
    \A i \in 1..Len(sent) :
        /\ sent[i].method = request.method
        /\ sent[i].body = request.body
        /\ SameHeaders(sent[i].headers, SelectSeq(request.headers, LAMBDA h : ~IsDenied(h)))

\* The part of C16 that is about the method and the headers.
C16_HeadersFiltered ==
    \A i \in 1..Len(sent) :
        /\ sent[i].method = request.method
        /\ SameHeaders(sent[i].headers, SelectSeq(request.headers, LAMBDA h : ~IsDenied(h)))

\* What an SSEClient alone yields for the chunks cs, and what stream_generate
\* then relays.
RECURSIVE SoloFrames(_, _)
SoloFrames(buf, cs) ==
    IF cs = <<>> THEN ReadRest(buf)
    ELSE LET st == ReadChunk(buf, Head(cs))
         IN st.frames \o SoloFrames(st.data, Tail(cs))

Solo(cs) == stream_generate(events(SoloFrames(<<>>, cs), <<>>, 0).events)

IsPrefix(s, t) == Len(s) <= Len(t) /\ SubSeq(t, 1, Len(s)) = s

Finished(p) ==
    \/ p.pc = "aborted"
    \/ p.pc = "flushed" /\ p.queue = <<>> /\ p.building = <<>>

\* C14: in every interleaving of two exchanges, each relays to its caller a
\* prefix of what it relays alone on its own chunks, and all of it once it
\* has finished; and the buffer and the event in progress of an exchange
\* change only in a step of that exchange.
C14_Isolated ==
    /\ [](\A i \in Exchanges :
            /\ IsPrefix(peers[i].relayed, Solo(peers[i].got))
            /\ Finished(peers[i]) => peers[i].relayed = Solo(peers[i].got))
    /\ [][\A i \in Exchanges :
            (buffers'[i] # buffers[i] \/ peers'[i].building # peers[i].building) =>
                /\ peers'[i] # peers[i]
                /\ \A j \in Exchanges \ {i} : peers'[j] = peers[j] /\ buffers'[j] = buffers[j]]_vars

\* Both exchanges hold a partial frame in their buffers at the same time, and
\* one of them has relayed an event to its caller.
C14_Witness ==
    /\ buffers[1] = DATA \o <<":", "x">>
    /\ buffers[2] = <<LF>>
    /\ peers[2].relayed = <<Emit([NewEvent EXCEPT !.data = <<"y">>])>>
    /\ peers[1].relayed = <<>>
====
